---- MODULE Spec2Model ----
(***************************************************************************)
(* Model of tools/tissue_growth_simulator.py: the lattice, the division    *)
(* engine (split_cell), the recursive push (push_cell) and the generation  *)
(* stepper (simulate_to_generation) of TissueGrowthSimulator.              *)
(*                                                                         *)
(* Representation.                                                         *)
(*  - A Cell object is a record; a reference to a Cell is its index in     *)
(*    all_cells (objects are appended to all_cells in allocation order),   *)
(*    so object identity and unique_id are different things.               *)
(*  - Cell.x and Cell.y are floats in the source.  They are kept here as   *)
(*    fixed-point integers counting halves of a world unit, so that the    *)
(*    rounding of world_to_grid (Python round: half to even) is real.      *)
(*  - Angles are integer degrees, multiples of 45.  For these the unit     *)
(*    vector (cos, sin) is (ux, uy) / sqrt(n2) with integer ux, uy and     *)
(*    n2 = ux^2 + uy^2, and every comparison the source makes on cos, sin  *)
(*    and on the bond angle is decided exactly in integer arithmetic.      *)
(*  - dragging_cell is << >> for None, << c >> for the Cell c of all_cells *)
(*    and << 0 >> for a Cell object of a state that reset_simulation has   *)
(*    discarded since (the object lives on, outside the simulation).       *)
(*  - last_split and repositioned are history variables: the latest        *)
(*    division, and the cells on_mouse_move has written since the reset.   *)
(***************************************************************************)
EXTENDS Integers, Sequences, FiniteSets, TLC

\* Largest generation the callers ask for (the slider goes to 10).
MaxGen == 3

\* Values typed into the angle text boxes (degrees).
ParamValues == {0, 45, 90, -90}

\* Values of the generation argument of simulate_to_generation.
TargetValues == (-1) .. MaxGen

ParamNames == {"split_angle", "child1_angle", "child2_angle"}

\* Halves of a world unit per world unit in the fixed-point x, y.
FixedPoint == 2

\* self.grid_spacing = 1.0
grid_spacing == 1

VARIABLES
    split_angle, child1_angle, child2_angle,
    make_adhesion, keep_adhesion_child1, keep_adhesion_child2,
    current_generation,
    all_cells, active_cells, adhesions, next_unique_id, grid,
    pc, target_gen, gen, cells_to_split,
    dragging_cell, drag_offset_x, drag_offset_y,
    last_split, repositioned

config == <<split_angle, child1_angle, child2_angle,
            make_adhesion, keep_adhesion_child1, keep_adhesion_child2>>
sim    == <<all_cells, active_cells, adhesions, next_unique_id, grid>>
loop   == <<pc, target_gen, gen, cells_to_split>>
mouse  == <<dragging_cell, drag_offset_x, drag_offset_y>>
vars   == <<config, current_generation, sim, loop, mouse, last_split, repositioned>>

----------------------------------------------------------------------------
(* Cell *)

Cell(x, y, orientation, generation, parent_lineage_id, unique_id, child_number) ==
    [x |-> x, y |-> y, orientation |-> orientation, generation |-> generation,
     parent_lineage_id |-> parent_lineage_id, unique_id |-> unique_id,
     child_number |-> child_number, children |-> <<>>]

get_lineage_string(c) == <<c.parent_lineage_id, c.unique_id, c.child_number>>

----------------------------------------------------------------------------
(* Lattice *)

Abs(n) == IF n < 0 THEN -n ELSE n

\* Python round() of the rational num / den (den > 0): nearest integer,
\* ties to the even one.
py_round(num, den) ==
    LET q == num \div den
        r == num % den
    IN  IF 2 * r < den THEN q
        ELSE IF 2 * r > den THEN q + 1
        ELSE IF q % 2 = 0 THEN q ELSE q + 1

world_to_grid(x, y) ==
    <<py_round(x, FixedPoint * grid_spacing), py_round(y, FixedPoint * grid_spacing)>>

grid_to_world(grid_x, grid_y) ==
    <<grid_x * grid_spacing * FixedPoint, grid_y * grid_spacing * FixedPoint>>

\* np.cos / np.sin of an angle in degrees, as the integer vector <<ux, uy>>
\* with (cos, sin) = (ux, uy) / sqrt(ux^2 + uy^2).
UnitTable == << <<1, 0>>, <<1, 1>>, <<0, 1>>, <<-1, 1>>,
                <<-1, 0>>, <<-1, -1>>, <<0, -1>>, <<1, -1>> >>

unit_vector(deg) == UnitTable[((deg % 360) \div 45) + 1]

Norm2(u) == u[1] * u[1] + u[2] * u[2]

\* 1 if c / sqrt(n2) > 0.5 else (-1 if c / sqrt(n2) < -0.5 else 0)
quantize_component(c, n2) ==
    IF c > 0 /\ 4 * c * c > n2 THEN 1
    ELSE IF c < 0 /\ 4 * c * c > n2 THEN -1
    ELSE 0

\* Lines 142-152: the lattice direction of the split axis; (0, 1) when both
\* components quantise to 0.
split_direction(deg) ==
    LET u == unit_vector(deg)
        grid_dx == quantize_component(u[1], Norm2(u))
        grid_dy == quantize_component(u[2], Norm2(u))
    IN  IF grid_dx = 0 /\ grid_dy = 0 THEN <<0, 1>> ELSE <<grid_dx, grid_dy>>

\* The part of the simulator state push_cell and split_cell work on.
SimState(cells, active, bonds, next_id, g) ==
    [all_cells |-> cells, active_cells |-> active, adhesions |-> bonds,
     next_unique_id |-> next_id, grid |-> g]

\* push_cell without the recursive call of line 96: the occupant of the next
\* lattice cell is overwritten.
push_cell_overwrite(st, grid_pos, direction) ==
    IF grid_pos \notin DOMAIN st.grid THEN st
    ELSE
        LET cell_to_push == st.grid[grid_pos]
            new_grid_pos == <<grid_pos[1] + direction[1], grid_pos[2] + direction[2]>>
            w  == grid_to_world(new_grid_pos[1], new_grid_pos[2])
            g2 == [p \in (DOMAIN st.grid \ {grid_pos}) \cup {new_grid_pos} |->
                      IF p = new_grid_pos THEN cell_to_push ELSE st.grid[p]]
        IN  [st EXCEPT !.grid = g2,
                       !.all_cells = [st.all_cells EXCEPT ![cell_to_push].x = w[1],
                                                          ![cell_to_push].y = w[2]]]

\* push_cell without line 101: the position fields of the moved cell are
\* left as they were.
RECURSIVE push_cell_stale_position(_, _, _)
push_cell_stale_position(st, grid_pos, direction) ==
    IF grid_pos \notin DOMAIN st.grid THEN st
    ELSE
        LET cell_to_push == st.grid[grid_pos]
            new_grid_pos == <<grid_pos[1] + direction[1], grid_pos[2] + direction[2]>>
            s1 == push_cell_stale_position(st, new_grid_pos, direction)
            g2 == [p \in (DOMAIN s1.grid \ {grid_pos}) \cup {new_grid_pos} |->
                      IF p = new_grid_pos THEN cell_to_push ELSE s1.grid[p]]
        IN  [s1 EXCEPT !.grid = g2]

\* Lines 84-103.
RECURSIVE push_cell(_, _, _)
push_cell(st, grid_pos, direction) ==
    IF grid_pos \notin DOMAIN st.grid THEN st
    ELSE
        LET cell_to_push == st.grid[grid_pos]
            new_grid_pos == <<grid_pos[1] + direction[1], grid_pos[2] + direction[2]>>
            s1 == push_cell(st, new_grid_pos, direction)
            w  == grid_to_world(new_grid_pos[1], new_grid_pos[2])
            g2 == [p \in (DOMAIN s1.grid \ {grid_pos}) \cup {new_grid_pos} |->
                      IF p = new_grid_pos THEN cell_to_push ELSE s1.grid[p]]
        IN  [s1 EXCEPT !.grid = g2,
                       !.all_cells = [s1.all_cells EXCEPT ![cell_to_push].x = w[1],
                                                          ![cell_to_push].y = w[2]]]

\* The call made for the next lattice cell is made twice.
RECURSIVE push_cell_calls_twice(_, _, _)
push_cell_calls_twice(st, grid_pos, direction) ==
    IF grid_pos \notin DOMAIN st.grid THEN 1
    ELSE 1 + 2 * push_cell_calls_twice(st,
                     <<grid_pos[1] + direction[1], grid_pos[2] + direction[2]>>,
                     direction)

\* Lines 84-96: the number of calls of push_cell, nested in each other, that
\* push_cell(grid_pos, direction) makes, itself included.  The grid is not
\* written before the innermost call returns.
RECURSIVE push_cell_calls(_, _, _)
push_cell_calls(st, grid_pos, direction) ==
    IF grid_pos \notin DOMAIN st.grid THEN 1
    ELSE 1 + push_cell_calls(st,
                 <<grid_pos[1] + direction[1], grid_pos[2] + direction[2]>>,
                 direction)

----------------------------------------------------------------------------
(* Division engine *)

\* equatorial_threshold = 10.0 (degrees)
equatorial_threshold == 10

\* sin(d)^2 as the rational <<numerator, denominator>>, d in degrees.
SinSquared == [d \in {equatorial_threshold} |-> <<3015, 100000>>]

\* Lines 215-231 and the tests of lines 255, 288: the zone of the bond vector
\* (dx, dy) against the split axis of angle deg.  With angle_deg the angle
\* between the two vectors, cos(angle_deg) = d / sqrt(n2 * len2), so
\*   abs(angle_deg - 90) <= 10  iff  cos(angle_deg)^2 <= sin(10)^2
\*   angle_deg < 90             iff  d > 0.
bond_zone(dx, dy, deg) ==
    LET u    == unit_vector(deg)
        d    == dx * u[1] + dy * u[2]
        len2 == dx * dx + dy * dy
        s    == SinSquared[equatorial_threshold]
    IN  IF d * d * s[2] <= s[1] * Norm2(u) * len2 THEN "C"
        ELSE IF d > 0 THEN "B"
        ELSE "A"

\* Everything from the first element equal to e on is dropped.
RECURSIVE list_remove_truncate(_, _)
list_remove_truncate(l, e) ==
    IF l = <<>> THEN <<>>
    ELSE IF Head(l) = e THEN <<>>
    ELSE <<Head(l)>> \o list_remove_truncate(Tail(l), e)

\* list.remove(e): drops the first element equal to e.
RECURSIVE list_remove(_, _)
list_remove(l, e) ==
    IF l = <<>> THEN <<>>
    ELSE IF Head(l) = e THEN Tail(l)
    ELSE <<Head(l)>> \o list_remove(Tail(l), e)

\* e in l
list_contains(l, e) == \E i \in 1 .. Len(l) : l[i] = e

\* Tag 1 is matched to child2 and tag 2 to child1.
priority_bonds_other_child(child1, child2, neighbor, neighbor_source_child) ==
    IF neighbor_source_child = <<1>> /\ keep_adhesion_child1
        THEN << <<child2, neighbor, TRUE>> >>
    ELSE IF neighbor_source_child = <<2>> /\ keep_adhesion_child2
        THEN << <<child1, neighbor, TRUE>> >>
    ELSE <<>>

\* Lines 247-254: the priority rule for a bond that carries a source-child
\* tag; neighbor_source_child is <<1>> or <<2>>.
priority_bonds(child1, child2, neighbor, neighbor_source_child) ==
    IF neighbor_source_child = <<1>> /\ keep_adhesion_child1
        THEN << <<child1, neighbor, TRUE>> >>
    ELSE IF neighbor_source_child = <<2>> /\ keep_adhesion_child2
        THEN << <<child2, neighbor, TRUE>> >>
    ELSE <<>>

\* The source-child tag is not stored.
equatorial_bonds_untagged(Nb, child1, child2, neighbor) ==
    (IF keep_adhesion_child1
        THEN << <<child1, neighbor, TRUE>> >> ELSE <<>>)
    \o (IF keep_adhesion_child2
        THEN << <<child2, neighbor, TRUE>> >> ELSE <<>>)

\* Lines 271-287: zone C for a bond without tag.
equatorial_bonds(Nb, child1, child2, neighbor) ==
    IF Len(Nb.children) = 2 THEN
        (IF keep_adhesion_child1
            THEN << <<child1, Nb.children[1], TRUE>> >> ELSE <<>>)
        \o (IF keep_adhesion_child2
            THEN << <<child2, Nb.children[2], TRUE>> >> ELSE <<>>)
    ELSE
        (IF keep_adhesion_child1
            THEN << <<child1, neighbor, TRUE, 1>> >> ELSE <<>>)
        \o (IF keep_adhesion_child2
            THEN << <<child2, neighbor, TRUE, 2>> >> ELSE <<>>)

\* keep_adhesion_child2 is not consulted.
aligned_bonds_ungated(Nb, child2, neighbor) ==
    IF Len(Nb.children) = 2
        THEN << <<child2, Nb.children[2], TRUE>> >>
        ELSE << <<child2, neighbor, TRUE>> >>

\* Lines 288-296: zone B, child2 inherits.
aligned_bonds(Nb, child2, neighbor) ==
    IF keep_adhesion_child2 THEN
        IF Len(Nb.children) = 2
            THEN << <<child2, Nb.children[2], TRUE>> >>
            ELSE << <<child2, neighbor, TRUE>> >>
    ELSE <<>>

\* keep_adhesion_child1 is not consulted.
opposite_bonds_ungated(Nb, child1, neighbor) ==
    IF Len(Nb.children) = 2
        THEN << <<child1, Nb.children[1], TRUE>> >>
        ELSE << <<child1, neighbor, TRUE>> >>

\* Lines 297-305: zone A, child1 inherits.
opposite_bonds(Nb, child1, neighbor) ==
    IF keep_adhesion_child1 THEN
        IF Len(Nb.children) = 2
            THEN << <<child1, Nb.children[1], TRUE>> >>
            ELSE << <<child1, neighbor, TRUE>> >>
    ELSE <<>>

\* Lines 215-305: the bonds appended for one removed bond of the dividing
\* cell.  neighbor_source_child is <<>> for None, <<1>> or <<2>> otherwise.
inherited_bonds(cells, cell, child1, child2, neighbor, neighbor_source_child) ==
    LET P  == cells[cell]
        Nb == cells[neighbor]
        dx == Nb.x - P.x
        dy == Nb.y - P.y
        zone == bond_zone(dx, dy, P.orientation + split_angle)
    IN  IF dx = 0 /\ dy = 0 THEN <<>>
        ELSE IF neighbor_source_child # <<>> THEN
            priority_bonds(child1, child2, neighbor, neighbor_source_child)
        ELSE IF zone = "C" THEN equatorial_bonds(Nb, child1, child2, neighbor)
        ELSE IF zone = "B" THEN aligned_bonds(Nb, child2, neighbor)
        ELSE opposite_bonds(Nb, child1, neighbor)

\* The bond of the dividing cell is left in the ledger.
remove_parent_bond_kept(ledger, adhesion) == ledger

\* Lines 207, 211: self.adhesions.remove(adhesion)
remove_parent_bond(ledger, adhesion) == list_remove(ledger, adhesion)

\* Lines 190-305: the loop over the copy self.adhesions[:], from its i-th
\* element on; ledger is self.adhesions as the loop has left it so far.
RECURSIVE inherit_adhesions(_, _, _, _, _, _, _)
inherit_adhesions(copy, i, ledger, cells, cell, child1, child2) ==
    IF i > Len(copy) THEN ledger
    ELSE
        LET adhesion == copy[i]
            source_child_num == IF Len(adhesion) = 4 THEN <<adhesion[4]>> ELSE <<>>
        IN  IF adhesion[1] = cell THEN
                inherit_adhesions(copy, i + 1,
                    remove_parent_bond(ledger, adhesion)
                        \o inherited_bonds(cells, cell, child1, child2,
                                           adhesion[2], source_child_num),
                    cells, cell, child1, child2)
            ELSE IF adhesion[2] = cell THEN
                inherit_adhesions(copy, i + 1,
                    remove_parent_bond(ledger, adhesion)
                        \o inherited_bonds(cells, cell, child1, child2,
                                           adhesion[1], source_child_num),
                    cells, cell, child1, child2)
            ELSE inherit_adhesions(copy, i + 1, ledger, cells, cell, child1, child2)

\* Lines 190-305 again: what the loop did, one entry per bond of the copy
\* that names the dividing cell: the bond removed, the other endpoint, the
\* bond vector of lines 216-217 and the bonds appended for it.
RECURSIVE inheritance_log(_, _, _, _, _, _)
inheritance_log(copy, i, cells, cell, child1, child2) ==
    IF i > Len(copy) THEN <<>>
    ELSE
        LET adhesion == copy[i]
            source_child_num == IF Len(adhesion) = 4 THEN <<adhesion[4]>> ELSE <<>>
            neighbor == IF adhesion[1] = cell THEN adhesion[2] ELSE adhesion[1]
        IN  (IF adhesion[1] = cell \/ adhesion[2] = cell
                THEN << [adhesion |-> adhesion,
                         neighbor |-> neighbor,
                         dx |-> cells[neighbor].x - cells[cell].x,
                         dy |-> cells[neighbor].y - cells[cell].y,
                         created  |-> inherited_bonds(cells, cell, child1, child2,
                                                      neighbor, source_child_num)] >>
                ELSE <<>>)
            \o inheritance_log(copy, i + 1, cells, cell, child1, child2)

\* The orientation is not wrapped.
child_orientation_unwrapped(P, angle) == P.orientation + angle

\* Lines 134-135: (cell.orientation + angle) % 360
child_orientation(P, angle) == (P.orientation + angle) % 360

\* Lines 154-158: the parent leaves the grid and the active list.
remove_parent(st, cell, parent_grid) ==
    LET g1 == IF parent_grid \in DOMAIN st.grid /\ st.grid[parent_grid] = cell
                 THEN [p \in DOMAIN st.grid \ {parent_grid} |-> st.grid[p]]
                 ELSE st.grid
        a1 == IF list_contains(st.active_cells, cell)
                 THEN list_remove(st.active_cells, cell)
                 ELSE st.active_cells
    IN  [st EXCEPT !.grid = g1, !.active_cells = a1]

\* next_unique_id is not incremented between the two children.
new_children_same_id(P, child1_grid, child2_grid, next_id) ==
    LET w1 == grid_to_world(child1_grid[1], child1_grid[2])
        w2 == grid_to_world(child2_grid[1], child2_grid[2])
    IN  << Cell(w1[1], w1[2], child_orientation(P, child1_angle), P.generation + 1,
                P.unique_id, next_id, 1),
           Cell(w2[1], w2[2], child_orientation(P, child2_angle), P.generation + 1,
                P.unique_id, next_id, 2) >>

\* child2 is given the first id and child1 the second.
new_children_swapped_ids(P, child1_grid, child2_grid, next_id) ==
    LET w1 == grid_to_world(child1_grid[1], child1_grid[2])
        w2 == grid_to_world(child2_grid[1], child2_grid[2])
    IN  << Cell(w1[1], w1[2], child_orientation(P, child1_angle), P.generation + 1,
                P.unique_id, next_id + 1, 1),
           Cell(w2[1], w2[2], child_orientation(P, child2_angle), P.generation + 1,
                P.unique_id, next_id, 2) >>

\* Lines 169-180: the two Cell objects created for parent P, the first with
\* the id next_id.
new_children(P, child1_grid, child2_grid, next_id) ==
    LET w1 == grid_to_world(child1_grid[1], child1_grid[2])
        w2 == grid_to_world(child2_grid[1], child2_grid[2])
    IN  << Cell(w1[1], w1[2], child_orientation(P, child1_angle), P.generation + 1,
                P.unique_id, next_id, 1),
           Cell(w2[1], w2[2], child_orientation(P, child2_angle), P.generation + 1,
                P.unique_id, next_id + 1, 2) >>

\* The sibling bond is added whether make_adhesion is enabled or not.
sibling_bond_always(ledger, child1, child2) ==
    Append(ledger, <<child1, child2, FALSE>>)

\* The sibling bond is stored with the inherited flag set.
sibling_bond_inherited(ledger, child1, child2) ==
    IF make_adhesion THEN Append(ledger, <<child1, child2, TRUE>>) ELSE ledger

\* Lines 307-310: the bond between the two siblings.
sibling_bond(ledger, child1, child2) ==
    IF make_adhesion THEN Append(ledger, <<child1, child2, FALSE>>) ELSE ledger

\* Lines 131-312.  The result carries the new state, the two children
\* returned, what the call of push_cell (line 167) was given and left, and
\* what the inheritance loop did.
\* The two new Cell objects are allocated at the end of all_cells.
split_cell(st, cell) ==
    LET P == st.all_cells[cell]
        parent_grid == world_to_grid(P.x, P.y)
        dir == split_direction(P.orientation + split_angle)
        s1 == remove_parent(st, cell, parent_grid)
        child1_grid == parent_grid
        child2_grid == <<parent_grid[1] + dir[1], parent_grid[2] + dir[2]>>
        pushed == child2_grid \in DOMAIN s1.grid
        s2 == IF pushed THEN push_cell(s1, child2_grid, dir) ELSE s1
        child1 == Len(s2.all_cells) + 1
        child2 == Len(s2.all_cells) + 2
        kids == new_children(P, child1_grid, child2_grid, s2.next_unique_id)
        cells3 == [Append(Append(s2.all_cells, kids[1]), kids[2])
                      EXCEPT ![cell].children = <<child1, child2>>]
        g3 == [p \in DOMAIN s2.grid \cup {child1_grid, child2_grid} |->
                  IF p = child2_grid THEN child2
                  ELSE IF p = child1_grid THEN child1
                  ELSE s2.grid[p]]
        bonds == inherit_adhesions(s2.adhesions, 1, s2.adhesions,
                                   cells3, cell, child1, child2)
    IN  [state  |-> SimState(cells3, s2.active_cells,
                             sibling_bond(bonds, child1, child2),
                             s2.next_unique_id + 2, g3),
         child1 |-> child1,
         child2 |-> child2,
         parent |-> cell,
         pushed |-> pushed,
         push_pos |-> child2_grid,
         push_dir |-> dir,
         before_push |-> s1,
         after_push  |-> s2,
         inherited   |-> inheritance_log(s2.adhesions, 1, cells3, cell,
                                         child1, child2)]

----------------------------------------------------------------------------
(* Simulation state and stepper *)

State == SimState(all_cells, active_cells, adhesions, next_unique_id, grid)

\* The id counter is not set back.
reset_simulation_keeps_ids(st) ==
    SimState(<< Cell(0, 0, 0, 0, 0, 1, 0) >>,
             << 1 >>,
             << >>,
             st.next_unique_id,
             [p \in {<<0, 0>>} |-> 1])

\* The bond ledger is not emptied.
reset_simulation_keeps_bonds(st) ==
    SimState(<< Cell(0, 0, 0, 0, 0, 1, 0) >>,
             << 1 >>,
             st.adhesions,
             2,
             [p \in {<<0, 0>>} |-> 1])

\* Lines 61-74.  st is the state being discarded.
reset_simulation(st) ==
    SimState(<< Cell(0, 0, 0, 0, 0, 1, 0) >>,
             << 1 >>,
             << >>,
             2,
             [p \in {<<0, 0>>} |-> 1])

\* No division has been made since the last reset.
NoSplit ==
    [child1 |-> 0, child2 |-> 0, parent |-> 0, pushed |-> FALSE,
     push_pos |-> <<0, 0>>, push_dir |-> <<0, 0>>,
     before_push |-> reset_simulation(State),
     after_push  |-> reset_simulation(State),
     inherited   |-> << >>]

SetState(st) ==
    /\ all_cells' = st.all_cells
    /\ active_cells' = st.active_cells
    /\ adhesions' = st.adhesions
    /\ next_unique_id' = st.next_unique_id
    /\ grid' = st.grid

\* Lines 26-56: the constructor.
Init ==
    /\ split_angle = 0
    /\ child1_angle = 0
    /\ child2_angle = 0
    /\ make_adhesion = TRUE
    /\ keep_adhesion_child1 = TRUE
    /\ keep_adhesion_child2 = TRUE
    /\ current_generation = 0
    /\ all_cells = << Cell(0, 0, 0, 0, 0, 1, 0) >>
    /\ active_cells = << 1 >>
    /\ adhesions = << >>
    /\ next_unique_id = 2
    /\ grid = [p \in {<<0, 0>>} |-> 1]
    /\ pc = "idle"
    /\ target_gen = 0
    /\ gen = 0
    /\ cells_to_split = << >>
    /\ dragging_cell = << >>
    /\ drag_offset_x = 0
    /\ drag_offset_y = 0
    /\ last_split = NoSplit
    /\ repositioned = {}

\* Lines 314-318: simulate_to_generation(target) is entered: the state is
\* reset and the loop over range(target) starts.
simulate_to_generation(target) ==
    /\ SetState(reset_simulation(State))
    /\ target_gen' = target
    /\ gen' = 0
    /\ cells_to_split' = << >>
    /\ pc' = "for_gen"
    /\ dragging_cell' = IF dragging_cell = << >> THEN << >> ELSE << 0 >>
    /\ UNCHANGED <<drag_offset_x, drag_offset_y>>
    /\ last_split' = NoSplit
    /\ repositioned' = {}

\* The cohort is taken in the reverse order of the active list.
RECURSIVE cells_of_generation_reversed(_, _, _)
cells_of_generation_reversed(cells, active, g) ==
    IF active = << >> THEN << >>
    ELSE cells_of_generation_reversed(cells, Tail(active), g)
         \o (IF cells[Head(active)].generation = g THEN << Head(active) >> ELSE << >>)

\* Line 320: [c for c in self.active_cells if c.generation == gen]
RECURSIVE cells_of_generation(_, _, _)
cells_of_generation(cells, active, g) ==
    IF active = << >> THEN << >>
    ELSE (IF cells[Head(active)].generation = g THEN << Head(active) >> ELSE << >>)
         \o cells_of_generation(cells, Tail(active), g)

\* The loop runs over range(target_gen + 1).
BeginPass_one_more ==
    /\ pc = "for_gen"
    /\ gen < target_gen + 1
    /\ cells_to_split' = cells_of_generation(all_cells, active_cells, gen)
    /\ pc' = "for_cell"
    /\ UNCHANGED <<config, current_generation, sim, target_gen, gen, mouse,
                   last_split, repositioned>>

\* Lines 318-320: the next pass of "for gen in range(target_gen)" starts.
BeginPass ==
    /\ pc = "for_gen"
    /\ gen < target_gen
    /\ cells_to_split' = cells_of_generation(all_cells, active_cells, gen)
    /\ pc' = "for_cell"
    /\ UNCHANGED <<config, current_generation, sim, target_gen, gen, mouse,
                   last_split, repositioned>>

\* The loop runs over the live list: the children join the cells to split.
SplitNext_live_list ==
    /\ pc = "for_cell"
    /\ cells_to_split # << >>
    /\ LET r == split_cell(State, Head(cells_to_split))
       IN  /\ SetState([r.state EXCEPT
                  !.active_cells = Append(Append(@, r.child1), r.child2)])
           /\ last_split' = [child1 |-> r.child1, child2 |-> r.child2,
                             parent |-> r.parent, pushed |-> r.pushed,
                             push_pos |-> r.push_pos, push_dir |-> r.push_dir,
                             before_push |-> r.before_push,
                             after_push |-> r.after_push,
                             inherited |-> r.inherited]
           /\ cells_to_split' = Tail(cells_to_split) \o <<r.child1, r.child2>>
    /\ UNCHANGED <<config, current_generation, pc, target_gen, gen, mouse,
                   repositioned>>

\* Lines 323-328: one iteration of "for cell in cells_to_split".
SplitNext ==
    /\ pc = "for_cell"
    /\ cells_to_split # << >>
    /\ LET r == split_cell(State, Head(cells_to_split))
       IN  /\ SetState([r.state EXCEPT
                  !.active_cells = Append(Append(@, r.child1), r.child2)])
           /\ last_split' = [child1 |-> r.child1, child2 |-> r.child2,
                             parent |-> r.parent, pushed |-> r.pushed,
                             push_pos |-> r.push_pos, push_dir |-> r.push_dir,
                             before_push |-> r.before_push,
                             after_push |-> r.after_push,
                             inherited |-> r.inherited]
    /\ cells_to_split' = Tail(cells_to_split)
    /\ UNCHANGED <<config, current_generation, pc, target_gen, gen, mouse,
                   repositioned>>

\* The inner loop is exhausted: next gen.
EndPass ==
    /\ pc = "for_cell"
    /\ cells_to_split = << >>
    /\ gen' = gen + 1
    /\ pc' = "for_gen"
    /\ UNCHANGED <<config, current_generation, sim, target_gen, cells_to_split,
                   mouse, last_split, repositioned>>

\* Line 330: range(target_gen) is exhausted.
Return ==
    /\ pc = "for_gen"
    /\ ~ (gen < target_gen)
    /\ current_generation' = target_gen
    /\ pc' = "idle"
    /\ UNCHANGED <<config, sim, target_gen, gen, cells_to_split, mouse,
                   last_split, repositioned>>

----------------------------------------------------------------------------
(* Callers *)

\* A direct call of simulate_to_generation(target_gen).
StepTo(target) ==
    /\ pc = "idle"
    /\ simulate_to_generation(target)
    /\ UNCHANGED <<config, current_generation>>

\* Lines 481-486: how update_plot unpacks a bond of the ledger; a tuple of
\* 3 gives (cell1, cell2, is_inherited), every other tuple is unpacked into
\* two names, which raises ValueError unless it has 2 elements.
unpack_adhesion(adhesion) ==
    IF Len(adhesion) = 3 THEN <<adhesion[1], adhesion[2], adhesion[3]>>
    ELSE IF Len(adhesion) = 2 THEN <<adhesion[1], adhesion[2], FALSE>>
    ELSE "ValueError"

\* Lines 513-518; the slider delivers 0 .. 10.
on_generation_change(val) ==
    /\ pc = "idle"
    /\ val # current_generation
    /\ simulate_to_generation(val)
    /\ UNCHANGED <<config, current_generation>>

\* Lines 520-531, for a text that float() accepts.
on_param_change(param_name, value) ==
    /\ pc = "idle"
    /\ split_angle' = IF param_name = "split_angle" THEN value ELSE split_angle
    /\ child1_angle' = IF param_name = "child1_angle" THEN value ELSE child1_angle
    /\ child2_angle' = IF param_name = "child2_angle" THEN value ELSE child2_angle
    /\ simulate_to_generation(current_generation)
    /\ UNCHANGED <<make_adhesion, keep_adhesion_child1, keep_adhesion_child2,
                   current_generation>>

\* The flag is toggled and the simulation is not run again.
on_make_adhesion_change_no_rerun ==
    /\ pc = "idle"
    /\ make_adhesion' = ~ make_adhesion
    /\ UNCHANGED <<split_angle, child1_angle, child2_angle,
                   keep_adhesion_child1, keep_adhesion_child2, current_generation,
                   sim, loop, mouse, last_split, repositioned>>

\* Lines 533-537.
on_make_adhesion_change ==
    /\ pc = "idle"
    /\ make_adhesion' = ~ make_adhesion
    /\ simulate_to_generation(current_generation)
    /\ UNCHANGED <<split_angle, child1_angle, child2_angle,
                   keep_adhesion_child1, keep_adhesion_child2, current_generation>>

\* Lines 539-543.
on_keep_adhesion_child1_change ==
    /\ pc = "idle"
    /\ keep_adhesion_child1' = ~ keep_adhesion_child1
    /\ simulate_to_generation(current_generation)
    /\ UNCHANGED <<split_angle, child1_angle, child2_angle,
                   make_adhesion, keep_adhesion_child2, current_generation>>

\* Lines 545-549.
on_keep_adhesion_child2_change ==
    /\ pc = "idle"
    /\ keep_adhesion_child2' = ~ keep_adhesion_child2
    /\ simulate_to_generation(current_generation)
    /\ UNCHANGED <<split_angle, child1_angle, child2_angle,
                   make_adhesion, keep_adhesion_child1, current_generation>>

\* Points of the canvas where the mouse button is pressed, and points the
\* pointer is moved to while a cell is dragged (event.xdata, event.ydata in
\* halves of a world unit).
PressPoints == {<<0, 0>>, <<2, 0>>}
MovePoints == {<<1, 0>>, <<2, 2>>}

\* self.cell_radius = 0.4, as the rational <<2, 5>>.
cell_radius == <<2, 5>>

\* Lines 478, 557: [c for c in self.active_cells if c.generation <= self.current_generation]
RECURSIVE visible_cells(_, _, _)
visible_cells(cells, active, cur) ==
    IF active = << >> THEN << >>
    ELSE (IF cells[Head(active)].generation <= cur THEN << Head(active) >> ELSE << >>)
         \o visible_cells(cells, Tail(active), cur)

\* Lines 559-560: sqrt((cell.x - xdata)^2 + (cell.y - ydata)^2) <= cell_radius
within_radius(c, pt) ==
    ((c.x - pt[1]) * (c.x - pt[1]) + (c.y - pt[2]) * (c.y - pt[2]))
        * cell_radius[2] * cell_radius[2]
      <= cell_radius[1] * cell_radius[1] * FixedPoint * FixedPoint

\* Lines 558-564: the first visible cell under the pointer, << >> if none.
RECURSIVE cell_at(_, _, _)
cell_at(cells, visible, pt) ==
    IF visible = << >> THEN << >>
    ELSE IF within_radius(cells[Head(visible)], pt) THEN << Head(visible) >>
    ELSE cell_at(cells, Tail(visible), pt)

\* Lines 551-564, for an event inside the axes.
on_mouse_press(pt) ==
    /\ pc = "idle"
    /\ LET hit == cell_at(all_cells,
                          visible_cells(all_cells, active_cells, current_generation),
                          pt)
       IN  IF hit # << >>
           THEN /\ dragging_cell' = hit
                /\ drag_offset_x' = pt[1] - all_cells[hit[1]].x
                /\ drag_offset_y' = pt[2] - all_cells[hit[1]].y
           ELSE UNCHANGED mouse
    /\ UNCHANGED <<config, current_generation, sim, loop, last_split, repositioned>>

\* Lines 566-568.
on_mouse_release ==
    /\ pc = "idle"
    /\ dragging_cell' = << >>
    /\ UNCHANGED <<config, current_generation, sim, loop, drag_offset_x,
                   drag_offset_y, last_split, repositioned>>

\* Lines 576-577: the new position fields of the dragged cell.
dragged_position(c, pt) ==
    [c EXCEPT !.x = pt[1] - drag_offset_x, !.y = pt[2] - drag_offset_y]

\* The dragged cell is also entered in the grid at its new lattice cell.
on_mouse_move_regrid(pt) ==
    /\ pc = "idle"
    /\ dragging_cell # << >>
    /\ IF dragging_cell # << 0 >>
       THEN LET moved == dragged_position(all_cells[dragging_cell[1]], pt)
                key   == world_to_grid(moved.x, moved.y)
            IN  /\ all_cells' = [all_cells EXCEPT ![dragging_cell[1]] = moved]
                /\ grid' = [p \in DOMAIN grid \cup {key} |->
                               IF p = key THEN dragging_cell[1] ELSE grid[p]]
                /\ repositioned' = repositioned \cup {dragging_cell[1]}
       ELSE UNCHANGED <<all_cells, grid, repositioned>>
    /\ UNCHANGED <<config, current_generation, active_cells, adhesions,
                   next_unique_id, loop, mouse, last_split>>

\* Lines 570-580, for an event inside the axes.  A dragged Cell that a reset
\* has discarded is written too, but it is no part of the state any more.
on_mouse_move(pt) ==
    /\ pc = "idle"
    /\ dragging_cell # << >>
    /\ IF dragging_cell # << 0 >>
       THEN /\ all_cells' = [all_cells EXCEPT
                   ![dragging_cell[1]] = dragged_position(@, pt)]
            /\ repositioned' = repositioned \cup {dragging_cell[1]}
       ELSE UNCHANGED <<all_cells, repositioned>>
    /\ UNCHANGED <<config, current_generation, active_cells, adhesions,
                   next_unique_id, grid, loop, mouse, last_split>>

Next ==
    \/ \E t \in TargetValues : StepTo(t)
    \/ \E v \in 0 .. MaxGen : on_generation_change(v)
    \/ \E n \in ParamNames, v \in ParamValues : on_param_change(n, v)
    \/ on_make_adhesion_change
    \/ on_keep_adhesion_child1_change
    \/ on_keep_adhesion_child2_change
    \/ \E pt \in PressPoints : on_mouse_press(pt)
    \/ on_mouse_release
    \/ \E pt \in MovePoints : on_mouse_move(pt)
    \/ BeginPass
    \/ SplitNext
    \/ EndPass
    \/ Return

Spec == Init /\ [][Next]_vars

----------------------------------------------------------------------------
(* Properties *)

RECURSIVE Pow2(_)
Pow2(n) == IF n <= 0 THEN 1 ELSE 2 * Pow2(n - 1)

ActiveSet == {active_cells[i] : i \in 1 .. Len(active_cells)}

GridCells == {grid[p] : p \in DOMAIN grid}

\* simulate_to_generation has returned and no cell has been repositioned
\* since.
Returned == pc = "idle" /\ repositioned = {}

\* C1: when simulate_to_generation(N) has returned for N >= 0, the active
\* list holds exactly 2^N cells, all different.
C1_ActiveCount ==
    (Returned /\ current_generation >= 0) =>
        /\ Len(active_cells) = Pow2(current_generation)
        /\ Cardinality(ActiveSet) = Pow2(current_generation)

C1_Witness ==
    Returned /\ current_generation = 3 /\ Len(active_cells) = 8

\* C2: in every state (after reset, after each division with its push
\* chain) no cell is under two grid keys, the grid holds exactly the
\* active cells, and no cell in the grid has divided.
C2_GridInjective ==
    /\ \A p, q \in DOMAIN grid : grid[p] = grid[q] => p = q
    /\ GridCells = ActiveSet
    /\ Cardinality(DOMAIN grid) = Len(active_cells)
    /\ \A p \in DOMAIN grid : all_cells[grid[p]].children = << >>

C2_Witness ==
    /\ last_split.pushed
    /\ Cardinality(DOMAIN grid) >= 4
    /\ \E c \in DOMAIN all_cells : all_cells[c].children # << >>

\* C3: after every division, both endpoints of every bond in the ledger
\* are active cells that have not divided.
C3_NoDanglingBonds ==
    \A i \in 1 .. Len(adhesions) :
        \A k \in {1, 2} :
            /\ adhesions[i][k] \in ActiveSet
            /\ all_cells[adhesions[i][k]].children = << >>

C3_Witness ==
    /\ Returned /\ current_generation = 2
    /\ make_adhesion /\ keep_adhesion_child1 /\ keep_adhesion_child2
    /\ Len(adhesions) >= 3

\* The lattice cell of a Cell object.
LatticeOf(c) == world_to_grid(all_cells[c].x, all_cells[c].y)

ManhattanDistance(p, q) == Abs(p[1] - q[1]) + Abs(p[2] - q[2])

\* A division has been made since the last reset; last_split describes the
\* latest one, and nothing has moved since.
Divided == last_split.parent # 0 /\ repositioned = {}

\* C4: immediately after a division the two new siblings are at Manhattan
\* distance exactly 1 on the lattice.
C4_SiblingsManhattanOne ==
    Divided =>
        ManhattanDistance(LatticeOf(last_split.child1),
                          LatticeOf(last_split.child2)) = 1

\* C5: the seed has id 1, ids are issued from 2 on in strictly increasing
\* order of creation, all below the next id to issue, so that no two cells
\* ever created share an id or a lineage triple.
C5_UniqueIds ==
    /\ all_cells[1].unique_id = 1
    /\ \A i \in DOMAIN all_cells : all_cells[i].unique_id < next_unique_id
    /\ \A i \in DOMAIN all_cells : i > 1 => all_cells[i].unique_id >= 2
    /\ \A i, j \in DOMAIN all_cells :
           i < j =>
               /\ all_cells[i].unique_id < all_cells[j].unique_id
               /\ get_lineage_string(all_cells[i]) # get_lineage_string(all_cells[j])

C5_Witness ==
    /\ Len(all_cells) >= 7
    /\ \E i \in DOMAIN all_cells : all_cells[i].children # << >>

\* C6: a call of simulate_to_generation with a negative generation does
\* not return normally and never makes current_generation negative.
C6_NegativeRejected ==
    /\ current_generation >= 0
    /\ ~ (Returned /\ target_gen < 0)

\* The state the constructor leaves (lines 26-56, 61-74), written out.
SeedCell ==
    [x |-> 0, y |-> 0, orientation |-> 0, generation |-> 0,
     parent_lineage_id |-> 0, unique_id |-> 1, child_number |-> 0,
     children |-> << >>]

SeedState ==
    [all_cells |-> << SeedCell >>, active_cells |-> << 1 >>, adhesions |-> << >>,
     next_unique_id |-> 2, grid |-> [p \in {<<0, 0>>} |-> 1]]

\* The run of a newly constructed simulator to generation n under the
\* present configuration: every cohort divided in the order of the active
\* list, starting from the seed.
RECURSIVE FreshPass(_, _)
FreshPass(st, queue) ==
    IF queue = << >> THEN st
    ELSE LET r == split_cell(st, Head(queue))
         IN  FreshPass([r.state EXCEPT
                           !.active_cells = Append(Append(@, r.child1), r.child2)],
                       Tail(queue))

RECURSIVE FreshGens(_, _, _)
FreshGens(st, g, n) ==
    IF g < n
        THEN FreshGens(FreshPass(st, cells_of_generation(st.all_cells,
                                                         st.active_cells, g)),
                       g + 1, n)
        ELSE st

FreshRun(n) == FreshGens(SeedState, 0, n)

\* C7: whatever calls, configuration changes and earlier runs came before,
\* the state simulate_to_generation(N) returns is the one a fresh simulator
\* with the same configuration reaches for N.
C7_Deterministic ==
    Returned => State = FreshRun(current_generation)

C7_Witness ==
    /\ Returned /\ current_generation = 2
    /\ split_angle = 45 /\ child1_angle = 90 /\ ~ keep_adhesion_child2
    /\ Len(adhesions) >= 2

\* The 8 lattice directions.
Directions == {d \in {-1, 0, 1} \X {-1, 0, 1} : d # <<0, 0>>}

\* k steps from p along d.
Along(p, d, k) == <<p[1] + k * d[1], p[2] + k * d[2]>>

\* Length of the maximal contiguous run of occupied cells from pos along d.
RECURSIVE RunLength(_, _, _)
RunLength(g, pos, d) ==
    IF pos \notin DOMAIN g THEN 0 ELSE 1 + RunLength(g, Along(pos, d, 1), d)

\* What push_cell(pos, d) may do between the state b it is given and the
\* state a it leaves.
PushFrame(b, a, pos, d) ==
    LET n     == RunLength(b.grid, pos, d)
        run   == {Along(pos, d, k) : k \in 0 .. n - 1}
        moved == {b.grid[p] : p \in run}
    IN  /\ DOMAIN a.grid = (DOMAIN b.grid \ run) \cup {Along(p, d, 1) : p \in run}
        /\ \A p \in run :
               /\ a.grid[Along(p, d, 1)] = b.grid[p]
               /\ <<a.all_cells[b.grid[p]].x, a.all_cells[b.grid[p]].y>>
                      = grid_to_world(Along(p, d, 1)[1], Along(p, d, 1)[2])
               /\ [a.all_cells[b.grid[p]] EXCEPT !.x = b.all_cells[b.grid[p]].x,
                                                 !.y = b.all_cells[b.grid[p]].y]
                      = b.all_cells[b.grid[p]]
        /\ pos \notin DOMAIN a.grid
        /\ \A q \in DOMAIN b.grid \ run : q \in DOMAIN a.grid /\ a.grid[q] = b.grid[q]
        /\ DOMAIN a.all_cells = DOMAIN b.all_cells
        /\ \A c \in DOMAIN b.all_cells \ moved : a.all_cells[c] = b.all_cells[c]
        /\ Cardinality(DOMAIN a.grid) = Cardinality(DOMAIN b.grid)
        /\ {a.grid[p] : p \in DOMAIN a.grid} = {b.grid[p] : p \in DOMAIN b.grid}
        /\ \A p, q \in DOMAIN a.grid : a.grid[p] = a.grid[q] => p = q
        /\ a.active_cells = b.active_cells
        /\ a.adhesions = b.adhesions
        /\ a.next_unique_id = b.next_unique_id

\* C8: push_cell(pos, d) on an empty pos changes nothing; on an occupied pos
\* it moves exactly the cells of the maximal run from pos along d one step
\* along d (grid key and position fields), frees pos, leaves every other
\* cell alone and keeps the number of occupants.  Checked on the push each
\* division made and, for every grid simulate_to_generation returns, on
\* push_cell applied at every occupied cell and every free cell next to
\* one, in all 8 directions.
C8_PushFrame ==
    /\ last_split.pushed =>
           /\ last_split.push_pos \in DOMAIN last_split.before_push.grid
           /\ PushFrame(last_split.before_push, last_split.after_push,
                        last_split.push_pos, last_split.push_dir)
    /\ Returned =>
         \A p \in DOMAIN grid, d \in Directions :
           /\ PushFrame(State, push_cell(State, p, d), p, d)
           /\ \A e \in Directions :
                  Along(p, e, 1) \notin DOMAIN grid =>
                      push_cell(State, Along(p, e, 1), d) = State

C8_Witness ==
    /\ last_split.pushed
    /\ RunLength(last_split.before_push.grid, last_split.push_pos,
                 last_split.push_dir) >= 2
    /\ Cardinality(DOMAIN last_split.before_push.grid) >= 4

\* reset_simulation has just run and no pass has started.
JustReset == pc = "for_gen" /\ gen = 0

\* C9: after reset_simulation there is exactly one cell, the active,
\* undivided seed at (0,0) with orientation 0, generation 0, id 1 and
\* lineage (0,1,0); the grid maps only (0,0) to it, the ledger is empty and
\* the next id is 2.
C9_ResetSeed ==
    JustReset =>
        /\ Len(all_cells) = 1
        /\ active_cells = << 1 >>
        /\ all_cells[1].children = << >>
        /\ all_cells[1].x = 0 /\ all_cells[1].y = 0
        /\ world_to_grid(all_cells[1].x, all_cells[1].y) = <<0, 0>>
        /\ all_cells[1].orientation = 0
        /\ all_cells[1].generation = 0
        /\ all_cells[1].unique_id = 1
        /\ get_lineage_string(all_cells[1]) = <<0, 1, 0>>
        /\ DOMAIN grid = {<<0, 0>>}
        /\ grid[<<0, 0>>] = 1
        /\ adhesions = << >>
        /\ next_unique_id = 2

\* A reset that discarded a grown tissue with bonds: the simulation is being
\* re-run for a generation it had already reached.
C9_Witness ==
    /\ JustReset
    /\ current_generation >= 2 /\ target_gen = current_generation
    /\ make_adhesion

\* The lattice direction of an angle that is a multiple of 45 degrees.
DirectionOfAngle(deg) ==
    CASE deg % 360 = 0   -> <<1, 0>>
      [] deg % 360 = 45  -> <<1, 1>>
      [] deg % 360 = 90  -> <<0, 1>>
      [] deg % 360 = 135 -> <<-1, 1>>
      [] deg % 360 = 180 -> <<-1, 0>>
      [] deg % 360 = 225 -> <<-1, -1>>
      [] deg % 360 = 270 -> <<0, -1>>
      [] deg % 360 = 315 -> <<1, -1>>

\* C10: the latest division of parent P made exactly two children: child1
\* in P's former lattice cell, child2 one step along the quantised direction
\* of P.orientation + split_angle; ids k and k+1 with child numbers 1 and 2,
\* parent id P.id, generation P.generation + 1, orientation
\* (P.orientation + childK_angle) mod 360; P is out of the grid and of the
\* active list.  With all angles 0, generation 1 is (1,2,1) at (0,0) and
\* (1,3,2) at (1,0).
C10_Division ==
    /\ Divided =>
        LET P  == all_cells[last_split.parent]
            r1 == last_split.child1
            r2 == last_split.child2
            c1 == all_cells[r1]
            c2 == all_cells[r2]
            pg == world_to_grid(P.x, P.y)
            k  == last_split.before_push.next_unique_id
        IN  /\ P.children = <<r1, r2>>
            /\ r1 # r2
            /\ LatticeOf(r1) = pg
            /\ pg \in DOMAIN grid /\ grid[pg] = r1
            /\ LatticeOf(r2) = Along(pg, DirectionOfAngle(P.orientation + split_angle), 1)
            /\ LatticeOf(r2) \in DOMAIN grid /\ grid[LatticeOf(r2)] = r2
            /\ get_lineage_string(c1) = <<P.unique_id, k, 1>>
            /\ get_lineage_string(c2) = <<P.unique_id, k + 1, 2>>
            /\ next_unique_id = k + 2
            /\ c1.generation = P.generation + 1
            /\ c2.generation = P.generation + 1
            /\ c1.orientation = (P.orientation + child1_angle) % 360
            /\ c2.orientation = (P.orientation + child2_angle) % 360
            /\ c1.orientation \in 0 .. 359 /\ c2.orientation \in 0 .. 359
            /\ c1.children = << >> /\ c2.children = << >>
            /\ last_split.parent \notin GridCells
            /\ last_split.parent \notin ActiveSet
            /\ {r1, r2} \subseteq ActiveSet
    /\ (/\ Returned /\ current_generation = 1
        /\ split_angle = 0 /\ child1_angle = 0 /\ child2_angle = 0) =>
            /\ Len(all_cells) = 3
            /\ get_lineage_string(all_cells[2]) = <<1, 2, 1>>
            /\ LatticeOf(2) = <<0, 0>>
            /\ get_lineage_string(all_cells[3]) = <<1, 3, 2>>
            /\ LatticeOf(3) = <<1, 0>>
            /\ active_cells = <<2, 3>>

C10_Witness ==
    /\ Divided /\ last_split.pushed
    /\ all_cells[last_split.parent].orientation # 0
    /\ all_cells[last_split.parent].generation >= 1

\* The pointer moves while a cell is dragged.
MouseMoves == \E pt \in MovePoints : on_mouse_move(pt)

\* st with the position fields of the cells in cs blanked.
WithoutPositions(st, cs) ==
    [st EXCEPT !.all_cells =
        [c \in DOMAIN st.all_cells |->
            IF c \in cs THEN [st.all_cells[c] EXCEPT !.x = 0, !.y = 0]
                        ELSE st.all_cells[c]]]

\* C11: a manual repositioning (on_mouse_move) changes only x and y of the
\* one dragged cell: grid, ledger, active list, id counter, configuration,
\* current generation and every other field of every cell stay; in every
\* idle state the simulation differs from the fresh run only in the
\* positions of the repositioned cells; and the next reset leaves exactly
\* the seed state, so later runs are as if nothing had been repositioned.
C11_RepositionCosmetic ==
    /\ [][MouseMoves =>
            /\ grid' = grid
            /\ adhesions' = adhesions
            /\ active_cells' = active_cells
            /\ next_unique_id' = next_unique_id
            /\ config' = config
            /\ current_generation' = current_generation
            /\ DOMAIN all_cells' = DOMAIN all_cells
            /\ \A c \in DOMAIN all_cells :
                   /\ << c >> # dragging_cell => all_cells'[c] = all_cells[c]
                   /\ [all_cells'[c] EXCEPT !.x = all_cells[c].x,
                                            !.y = all_cells[c].y] = all_cells[c]
         ]_vars
    /\ [][(pc = "idle" /\ repositioned # {} /\ pc' # "idle") =>
            /\ State' = SeedState
            /\ repositioned' = {}
         ]_vars
    /\ [](pc = "idle" =>
            WithoutPositions(State, repositioned)
                = WithoutPositions(FreshRun(current_generation), repositioned))

\* A cell of a tissue with bonds has been dragged out of its lattice cell.
C11_Witness ==
    /\ pc = "idle"
    /\ \E c \in repositioned : LatticeOf(c) \notin DOMAIN grid
    /\ Len(active_cells) >= 4
    /\ Len(adhesions) >= 2

\* C12: in every state, the grid entry at the lattice cell of every active
\* cell's continuous position is that cell.
C12_LatticeConsistent ==
    \A c \in ActiveSet :
        /\ LatticeOf(c) \in DOMAIN grid
        /\ grid[LatticeOf(c)] = c

\* Position of cell c in the active list.
ActiveIndex(c) == CHOOSE i \in 1 .. Len(active_cells) : active_cells[i] = c

\* C13: in pass gen of simulate_to_generation(N) the cells still to divide
\* are exactly the active cells of generation gen, in the order of the
\* active list, and no cell created in the pass is among them; each division
\* takes the next of them, which has not divided before; every cell has 0
\* or 2 children and is active iff it has none; on return (N a generation,
\* i.e. N >= 0) all active cells have generation N = current_generation.
C13_CohortPasses ==
    /\ [](pc = "for_cell" =>
            /\ \A i \in 1 .. Len(cells_to_split) :
                   /\ cells_to_split[i] \in ActiveSet
                   /\ all_cells[cells_to_split[i]].generation = gen
                   /\ all_cells[cells_to_split[i]].children = << >>
            /\ \A i, j \in 1 .. Len(cells_to_split) :
                   i < j => ActiveIndex(cells_to_split[i]) < ActiveIndex(cells_to_split[j])
            /\ \A c \in ActiveSet :
                   /\ all_cells[c].generation \in {gen, gen + 1}
                   /\ all_cells[c].generation = gen
                          => \E i \in 1 .. Len(cells_to_split) : cells_to_split[i] = c
            /\ gen < target_gen)
    /\ [](pc = "for_gen" =>
            \A c \in ActiveSet : all_cells[c].generation = gen)
    /\ [][SplitNext =>
            /\ last_split'.parent = Head(cells_to_split)
            /\ all_cells[Head(cells_to_split)].children = << >>
            /\ Len(all_cells'[Head(cells_to_split)].children) = 2
            /\ \A k \in {1, 2} :
                   all_cells'[Head(cells_to_split)].children[k] \notin DOMAIN all_cells
            /\ \A c \in DOMAIN all_cells :
                   c # Head(cells_to_split) => all_cells'[c].children = all_cells[c].children
         ]_vars
    /\ [](\A c \in DOMAIN all_cells :
            /\ Len(all_cells[c].children) \in {0, 2}
            /\ c \in ActiveSet <=> all_cells[c].children = << >>)
    /\ []((pc = "idle" /\ target_gen >= 0) =>
            /\ current_generation = target_gen
            /\ \A c \in ActiveSet : all_cells[c].generation = current_generation)

\* In the middle of a pass over a cohort of several cells.
C13_Witness ==
    /\ pc = "for_cell" /\ gen >= 1
    /\ cells_to_split # << >>
    /\ \E c \in ActiveSet : all_cells[c].generation = gen + 1

\* C14: push_cell comes to an end for every occupancy and each of the 8
\* directions, and makes at most (number of occupied lattice cells + 1)
\* nested calls: one per cell of the contiguous run from the start along
\* the direction, plus the one that finds the first free cell.  A start on
\* a free lattice cell makes the single call.
C14_PushBounded ==
    /\ \A p \in DOMAIN grid, d \in Directions :
           LET calls == push_cell_calls(State, p, d)
           IN  /\ calls <= Cardinality(DOMAIN grid) + 1
               /\ calls = RunLength(grid, p, d) + 1
               /\ push_cell_calls(State, Along(p, d, calls - 1), d) = 1
    /\ last_split.pushed =>
           push_cell_calls(last_split.before_push, last_split.push_pos,
                           last_split.push_dir)
               <= Cardinality(DOMAIN last_split.before_push.grid) + 1

\* A division pushed a chain of at least three cells.
C14_Witness ==
    /\ last_split.pushed
    /\ push_cell_calls(last_split.before_push, last_split.push_pos,
                       last_split.push_dir) >= 4

\* Bond b names cell c.
Names(b, c) == b[1] = c \/ b[2] = c

\* The elements of a sequence.
Range(l) == {l[i] : i \in DOMAIN l}

\* The ledger as the latest division found it.
LedgerBefore == last_split.before_push.adhesions

\* Its bonds that do not name the cell divided, in their order.
KeptBonds ==
    LET other(b) == ~ Names(b, last_split.parent)
    IN  SelectSeq(LedgerBefore, other)

\* Its bonds that name the cell divided, in their order.
RemovedBonds ==
    LET parents(b) == Names(b, last_split.parent)
    IN  SelectSeq(LedgerBefore, parents)

\* All bonds appended by the inheritance loop of the latest division.
RECURSIVE CreatedBonds(_)
CreatedBonds(log) ==
    IF log = << >> THEN << >> ELSE Head(log).created \o CreatedBonds(Tail(log))

\* Every bond naming the divided cell was removed and replaced by 0, 1 or 2
\* bonds from a child to the other endpoint.
Replacements ==
    /\ \A i \in DOMAIN adhesions : ~ Names(adhesions[i], last_split.parent)
    /\ Len(last_split.inherited) = Len(RemovedBonds)
    /\ \A i \in DOMAIN last_split.inherited :
           LET e == last_split.inherited[i]
           IN  /\ e.adhesion = RemovedBonds[i]
               /\ Names(e.adhesion, e.neighbor)
               /\ e.neighbor # last_split.parent
               /\ Len(e.created) \in 0 .. 2
               /\ \A k \in DOMAIN e.created :
                      /\ e.created[k][1] \in {last_split.child1, last_split.child2}
                      /\ e.created[k][2] = e.neighbor

\* C15 as stated: a division changes the ledger only by removing the bonds
\* that name the divided cell P and putting 0, 1 or 2 bonds child-neighbour
\* in the place of each; all other bonds stay.  (Not so: the sibling bond of
\* line 310 is a further change.)
C15_OnlyReplacements ==
    Divided =>
        /\ Replacements
        /\ \A b \in Range(KeptBonds) : b \in Range(adhesions)
        /\ \A b \in Range(adhesions) :
               b \in Range(KeptBonds) \cup Range(CreatedBonds(last_split.inherited))

\* C15, amended: a division of P changes the ledger only by removing every
\* bond naming P, appending for each 0, 1 or 2 bonds from a child of P to the
\* other endpoint, and appending the sibling bond child1-child2 when
\* make_adhesion is enabled; the bonds not naming P stay as they are, in
\* their order.
C15_LedgerChange ==
    Divided =>
        /\ Replacements
        /\ adhesions = KeptBonds \o CreatedBonds(last_split.inherited)
                         \o (IF make_adhesion
                                THEN << <<last_split.child1, last_split.child2, FALSE>> >>
                                ELSE << >>)

\* A division that kept bonds of other cells, and replaced one bond of P by
\* two bonds and another by one.
C15_Witness ==
    /\ Divided
    /\ KeptBonds # << >>
    /\ \E i, j \in DOMAIN last_split.inherited :
           /\ Len(last_split.inherited[i].created) = 2
           /\ Len(last_split.inherited[j].created) = 1

\* The zone the angle rules of lines 255-305 would put entry e of the
\* inheritance log of the latest division in.
ZoneOf(e) ==
    bond_zone(e.dx, e.dy, all_cells[last_split.parent].orientation + split_angle)

\* Child t of the cell divided last, and its keep flag.
ChildOf(t) == IF t = 1 THEN last_split.child1 ELSE last_split.child2
KeepOf(t) == IF t = 1 THEN keep_adhesion_child1 ELSE keep_adhesion_child2

\* C16: a bond removed at P's division that carries tag t is replaced by the
\* one untagged inherited bond child<t>(P)-neighbour when the keep flag of
\* child t is enabled and by nothing otherwise, in every zone of the bond
\* angle; the other child gets no bond from it.
C16_PriorityRule ==
    Divided =>
        \A i \in DOMAIN last_split.inherited :
            LET e == last_split.inherited[i]
            IN  Len(e.adhesion) = 4 =>
                    /\ e.adhesion[4] \in {1, 2}
                    /\ e.created =
                           (IF KeepOf(e.adhesion[4])
                               THEN << <<ChildOf(e.adhesion[4]), e.neighbor, TRUE>> >>
                               ELSE << >>)
                    /\ \A b \in Range(e.created) : b \in Range(adhesions)

\* A bond tagged 1 was removed where the angle rules would have given the
\* bond to child2, and child1 got it.
C16_Witness ==
    /\ Divided
    /\ \E i \in DOMAIN last_split.inherited :
           LET e == last_split.inherited[i]
           IN  /\ Len(e.adhesion) = 4
               /\ e.adhesion[4] = 1
               /\ ZoneOf(e) = "B"
               /\ e.created = << <<last_split.child1, e.neighbor, TRUE>> >>

\* The split axis of the cell divided last, as an integer vector.
SplitAxis == unit_vector(all_cells[last_split.parent].orientation + split_angle)

\* The bond of log entry e makes an angle within 10 degrees of 90 degrees
\* with the split axis: |dot| <= tan(10 deg) * |cross|, tan^2 = 0.03109.
InBand(e) ==
    LET dot   == e.dx * SplitAxis[1] + e.dy * SplitAxis[2]
        cross == e.dx * SplitAxis[2] - e.dy * SplitAxis[1]
    IN  dot * dot * 100000 <= 3109 * cross * cross

\* C17: (1) an untagged bond of P to an undivided neighbour N within 10
\* degrees of the equator is replaced by child1(P)-N tagged 1 and
\* child2(P)-N tagged 2, each if its keep flag is enabled; (2) a tagged
\* bond always joins a child of type t, as first endpoint, to an undivided
\* N; (3) it is N that divides next of the two, and the bond tagged t is
\* then replaced by child<t>(N)-child<t>(P), if keep flag t is enabled, in
\* every zone of the bond angle.
C17_TwoPhaseEquatorial ==
    /\ Divided =>
           \A i \in DOMAIN last_split.inherited :
               LET e == last_split.inherited[i]
               IN  /\ (Len(e.adhesion) = 3 /\ InBand(e)) =>
                          e.created =
                              (IF keep_adhesion_child1
                                  THEN << <<last_split.child1, e.neighbor, TRUE, 1>> >>
                                  ELSE << >>)
                              \o (IF keep_adhesion_child2
                                  THEN << <<last_split.child2, e.neighbor, TRUE, 2>> >>
                                  ELSE << >>)
                   /\ Len(e.adhesion) = 4 =>
                          LET t == e.adhesion[4]
                          IN  /\ e.adhesion[2] = last_split.parent
                              /\ e.neighbor = e.adhesion[1]
                              /\ all_cells[e.neighbor].child_number = t
                              /\ all_cells[ChildOf(t)].child_number = t
                              /\ e.created =
                                     (IF KeepOf(t)
                                         THEN << <<ChildOf(t), e.neighbor, TRUE>> >>
                                         ELSE << >>)
    /\ \A k \in DOMAIN adhesions :
           LET b == adhesions[k]
           IN  Len(b) = 4 =>
                   /\ b[3] = TRUE
                   /\ b[4] \in {1, 2}
                   /\ all_cells[b[1]].child_number = b[4]
                   /\ all_cells[b[1]].children = << >>
                   /\ all_cells[b[2]].children = << >>

\* N divided: one of its bonds, tagged, was matched by type outside the
\* equatorial band, and another, untagged and equatorial, was replaced by
\* two tagged bonds.
C17_Witness ==
    /\ Divided
    /\ \E i, j \in DOMAIN last_split.inherited :
           LET e == last_split.inherited[i]
               f == last_split.inherited[j]
           IN  /\ Len(e.adhesion) = 4
               /\ ~ InBand(e)
               /\ Len(e.created) = 1
               /\ Len(f.adhesion) = 3
               /\ InBand(f)
               /\ Len(f.created) = 2

\* The bond of log entry e makes an angle below 90 degrees with the split
\* axis.
Acute(e) == e.dx * SplitAxis[1] + e.dy * SplitAxis[2] > 0

\* C18: an untagged bond of P whose angle to the split axis, taken with the
\* positions as the push of this division left them, is outside [80, 100]
\* degrees goes to child2 only when the angle is below 90 (one bond
\* child2(P)-neighbour iff keep_adhesion_child2) and to child1 only
\* otherwise (one bond child1(P)-neighbour iff keep_adhesion_child1).
C18_PolarInheritance ==
    Divided =>
        \A i \in DOMAIN last_split.inherited :
            LET e == last_split.inherited[i]
            IN  (Len(e.adhesion) = 3 /\ ~ InBand(e)) =>
                    /\ e.dx = all_cells[e.neighbor].x - all_cells[last_split.parent].x
                    /\ e.dy = all_cells[e.neighbor].y - all_cells[last_split.parent].y
                    /\ Acute(e) =>
                           e.created =
                               (IF keep_adhesion_child2
                                   THEN << <<last_split.child2, e.neighbor, TRUE>> >>
                                   ELSE << >>)
                    /\ ~ Acute(e) =>
                           e.created =
                               (IF keep_adhesion_child1
                                   THEN << <<last_split.child1, e.neighbor, TRUE>> >>
                                   ELSE << >>)

\* A division whose push moved a neighbour, with one polar bond on each
\* side: child2 inherited the one and child1 the other.
C18_Witness ==
    /\ Divided
    /\ last_split.pushed
    /\ \E i, j \in DOMAIN last_split.inherited :
           LET e == last_split.inherited[i]
               f == last_split.inherited[j]
           IN  /\ Len(e.adhesion) = 3 /\ ~ InBand(e) /\ Acute(e)
               /\ e.created = << <<last_split.child2, e.neighbor, TRUE>> >>
               /\ last_split.before_push.all_cells[e.neighbor]
                      # last_split.after_push.all_cells[e.neighbor]
               /\ Len(f.adhesion) = 3 /\ ~ InBand(f) /\ ~ Acute(f)
               /\ f.created = << <<last_split.child1, f.neighbor, TRUE>> >>

\* The places of the ledger that join the two children of the latest
\* division.
SiblingPlaces ==
    {k \in DOMAIN adhesions :
        {adhesions[k][1], adhesions[k][2]} = {last_split.child1, last_split.child2}}

\* C19: a division adds exactly one bond between its two children, not
\* inherited and without tag, when make_adhesion is enabled, and none when
\* it is disabled; with make_adhesion disabled the ledger is empty
\* throughout, so after stepTo(N) for every N, keep flags and angles.
C19_SiblingBond ==
    /\ Divided =>
           IF make_adhesion
               THEN /\ SiblingPlaces = {Len(adhesions)}
                    /\ adhesions[Len(adhesions)]
                           = <<last_split.child1, last_split.child2, FALSE>>
                    /\ Len(adhesions) = Len(KeptBonds)
                           + Len(CreatedBonds(last_split.inherited)) + 1
               ELSE SiblingPlaces = {}
    /\ ~ make_adhesion => adhesions = << >>

\* A division that found bonds in the ledger has added its sibling bond.
C19_Witness ==
    /\ Divided
    /\ make_adhesion
    /\ LedgerBefore # << >>
    /\ adhesions[Len(adhesions)] = <<last_split.child1, last_split.child2, FALSE>>

\* Cells a and b are the two children of one cell.
Siblings(a, b) ==
    \E p \in DOMAIN all_cells :
        Len(all_cells[p].children) = 2
            /\ {a, b} = {all_cells[p].children[1], all_cells[p].children[2]}

\* C20: in every state a bond has inherited = false exactly when its two
\* endpoints are the two children of one parent, and every bond appended by
\* the inheritance loop has inherited = true, also when the bond removed
\* had inherited = false.
C20_InheritedFlag ==
    /\ \A k \in DOMAIN adhesions :
           (adhesions[k][3] = FALSE) <=> Siblings(adhesions[k][1], adhesions[k][2])
    /\ Divided =>
           \A i \in DOMAIN last_split.inherited :
               \A b \in Range(last_split.inherited[i].created) :
                   b[3] = TRUE /\ ~ Siblings(b[1], b[2])

\* A sibling bond (inherited = false) was removed at a division and the
\* bond put in its place has inherited = true; the ledger holds both kinds.
C20_Witness ==
    /\ Divided
    /\ \E i \in DOMAIN last_split.inherited :
           /\ last_split.inherited[i].adhesion[3] = FALSE
           /\ last_split.inherited[i].created # << >>
    /\ \E k, l \in DOMAIN adhesions : adhesions[k][3] = FALSE /\ adhesions[l][3] = TRUE

\* C21: with keep_adhesion_child1 disabled no division appends an inherited
\* bond for its child1, and likewise for child2, whether the bond removed
\* was tagged, equatorial or polar; with both flags disabled and
\* make_adhesion enabled the ledger after stepTo(N), N >= 1, is exactly the
\* 2^(N-1) sibling bonds between cells of generation N.
C21_KeepFlagGating ==
    /\ Divided =>
           /\ \A i \in DOMAIN last_split.inherited :
                  \A b \in Range(last_split.inherited[i].created) :
                      /\ b[1] = last_split.child1 => keep_adhesion_child1
                      /\ b[1] = last_split.child2 => keep_adhesion_child2
                      /\ b[2] \notin {last_split.child1, last_split.child2}
           /\ \A k \in DOMAIN adhesions :
                  (adhesions[k][3] = TRUE /\ Names(adhesions[k], last_split.child1))
                      => keep_adhesion_child1
           /\ \A k \in DOMAIN adhesions :
                  (adhesions[k][3] = TRUE /\ Names(adhesions[k], last_split.child2))
                      => keep_adhesion_child2
    /\ (Returned /\ current_generation >= 1 /\ make_adhesion
            /\ ~ keep_adhesion_child1 /\ ~ keep_adhesion_child2) =>
           /\ Len(adhesions) = Pow2(current_generation - 1)
           /\ Cardinality(Range(adhesions)) = Len(adhesions)
           /\ \A b \in Range(adhesions) :
                  /\ Len(b) = 3
                  /\ b[3] = FALSE
                  /\ Siblings(b[1], b[2])
                  /\ all_cells[b[1]].generation = current_generation
                  /\ all_cells[b[2]].generation = current_generation

\* With keep_adhesion_child1 disabled and keep_adhesion_child2 enabled, a
\* division removed a polar bond on child1's side and appended nothing for
\* it, and replaced an equatorial bond by the one bond of child2.
C21_Witness ==
    /\ Divided
    /\ ~ keep_adhesion_child1
    /\ keep_adhesion_child2
    /\ \E i, j \in DOMAIN last_split.inherited :
           LET e == last_split.inherited[i]
               f == last_split.inherited[j]
           IN  /\ Len(e.adhesion) = 3 /\ ~ InBand(e) /\ ~ Acute(e)
               /\ e.created = << >>
               /\ Len(f.adhesion) = 3 /\ InBand(f)
               /\ f.created = << <<last_split.child2, f.neighbor, TRUE, 2>> >>

\* A handler of a configuration change is run: a text box with a text that
\* float() accepts, or one of the three check boxes.
ConfigChange ==
    \/ \E n \in ParamNames, v \in ParamValues : on_param_change(n, v)
    \/ on_make_adhesion_change
    \/ on_keep_adhesion_child1_change
    \/ on_keep_adhesion_child2_change

\* C22: a configuration change discards the whole simulation state (seed
\* state again, nothing of the old run left) and runs stepTo for the
\* generation shown; the configuration and the target stay as they are
\* while the run is under way, and when it returns the state is what a
\* fresh run to that generation gives under the new configuration, with
\* current_generation as it was.
C22_ConfigChangeReruns ==
    /\ [][ConfigChange =>
              /\ target_gen' = current_generation
              /\ current_generation' = current_generation
              /\ State' = SeedState
              /\ pc' = "for_gen" /\ gen' = 0 /\ cells_to_split' = << >>
              /\ last_split' = NoSplit
              /\ repositioned' = {}]_vars
    /\ [][pc # "idle" =>
              /\ config' = config
              /\ target_gen' = target_gen
              /\ pc' # "idle" => current_generation' = current_generation]_vars
    /\ [][(pc # "idle" /\ pc' = "idle") =>
              /\ current_generation' = target_gen
              /\ State' = FreshRun(target_gen)]_vars

\* The re-run after a configuration change, to the generation shown, has
\* made its last pass under a configuration that is not the initial one.
C22_Witness ==
    /\ pc = "for_gen"
    /\ gen = target_gen
    /\ target_gen = current_generation
    /\ current_generation = 2
    /\ ~ make_adhesion /\ split_angle = 45 /\ keep_adhesion_child1
    /\ State = FreshRun(2)
    /\ Len(active_cells) = 4

\* C23: when stepTo(N) returns no bond of the ledger carries a source-child
\* tag, so update_plot can unpack every bond.  (Not so: a bond deferred for
\* a neighbour already divided in the same pass is left tagged when the
\* pass is the last one.)
C23_NoTagAtReturn ==
    (Returned /\ current_generation >= 0) =>
        \A k \in DOMAIN adhesions :
            /\ Len(adhesions[k]) = 3
            /\ unpack_adhesion(adhesions[k]) # "ValueError"

\* C24: a tagged bond (child, neighbour, tag) is removed only at the division
\* of its neighbour endpoint, never at that of the tagged child, which is
\* still undivided then; for as long as the bond is in the ledger the
\* neighbour stands before the tagged child in the active list and is of no
\* later generation, so the stepper reaches it first.
C24_TagConsumedByNeighbour ==
    /\ Divided =>
           \A i \in DOMAIN last_split.inherited :
               LET b == last_split.inherited[i].adhesion
               IN  Len(b) = 4 =>
                       /\ b[2] = last_split.parent
                       /\ b[1] # last_split.parent
                       /\ b[1] \in ActiveSet
                       /\ all_cells[b[1]].children = << >>
    /\ \A k \in DOMAIN adhesions :
           LET b == adhesions[k]
           IN  Len(b) = 4 =>
                   /\ b[1] \in ActiveSet /\ b[2] \in ActiveSet
                   /\ ActiveIndex(b[2]) < ActiveIndex(b[1])
                   /\ all_cells[b[2]].generation <= all_cells[b[1]].generation

\* A tagged bond that was left in the ledger by one pass has been removed in
\* the next, at the division of its neighbour.
C24_Witness ==
    /\ Divided
    /\ \E i \in DOMAIN last_split.inherited :
           LET b == last_split.inherited[i].adhesion
           IN  /\ Len(b) = 4
               /\ b[2] = last_split.parent
               /\ all_cells[b[1]].generation = all_cells[b[2]].generation

\* The ids of the cells of generation g created so far.
IdsOfGeneration(g) ==
    {all_cells[c].unique_id : c \in {d \in DOMAIN all_cells : all_cells[d].generation = g}}

\* C25: ids follow heap numbering: the children of the cell with id i have
\* the ids 2i (child1) and 2i+1 (child2), the id of a cell of generation g
\* lies in 2^g .. 2^(g+1)-1, after each full pass and on return the cells of
\* generation g have exactly these ids, and when stepTo(N) has returned
\* (N a generation, N >= 0) the next id to issue is 2^(N+1).
C25_HeapIds ==
    /\ \A c \in DOMAIN all_cells :
           LET P == all_cells[c]
           IN  /\ Pow2(P.generation) <= P.unique_id
               /\ P.unique_id < Pow2(P.generation + 1)
               /\ P.children # << >> =>
                      /\ all_cells[P.children[1]].unique_id = 2 * P.unique_id
                      /\ all_cells[P.children[2]].unique_id = 2 * P.unique_id + 1
                      /\ all_cells[P.children[1]].child_number = 1
                      /\ all_cells[P.children[2]].child_number = 2
    /\ pc = "for_gen" =>
           /\ \A g \in 0 .. gen : IdsOfGeneration(g) = Pow2(g) .. (Pow2(g + 1) - 1)
           /\ next_unique_id = Pow2(gen + 1)
    /\ (pc = "idle" /\ current_generation >= 0) =>
           /\ \A g \in 0 .. current_generation :
                  IdsOfGeneration(g) = Pow2(g) .. (Pow2(g + 1) - 1)
           /\ next_unique_id = Pow2(current_generation + 1)

\* stepTo(3) has returned under a configuration with pushes: 15 cells with
\* the ids 1 .. 15.
C25_Witness ==
    /\ pc = "idle"
    /\ current_generation = 3
    /\ split_angle = 45 /\ child2_angle = 90
    /\ next_unique_id = 16
    /\ Len(all_cells) = 15
    /\ \E c \in ActiveSet : all_cells[c].unique_id = 15

\* C26: in every state that stepTo reaches (no cell repositioned by hand
\* since) no bond joins a cell to itself, no two bonds of the ledger join
\* the same unordered pair of cells, and the endpoints of every bond are at
\* different lattice positions and different points; no bond removed at a
\* division had length zero, so the drop of line 218-219 was not taken.
C26_LedgerWellFormed ==
    repositioned = {} =>
        /\ \A k \in DOMAIN adhesions :
               LET b == adhesions[k]
               IN  /\ b[1] # b[2]
                   /\ LatticeOf(b[1]) # LatticeOf(b[2])
                   /\ <<all_cells[b[1]].x, all_cells[b[1]].y>>
                          # <<all_cells[b[2]].x, all_cells[b[2]].y>>
        /\ \A k, l \in DOMAIN adhesions :
               k # l => {adhesions[k][1], adhesions[k][2]}
                            # {adhesions[l][1], adhesions[l][2]}
        /\ last_split.parent # 0 =>
               \A i \in DOMAIN last_split.inherited :
                   last_split.inherited[i].dx # 0 \/ last_split.inherited[i].dy # 0

\* A division with a push removed three bonds or more, and the ledger holds
\* six or more afterwards.
C26_Witness ==
    /\ Divided
    /\ last_split.pushed
    /\ Len(last_split.inherited) >= 3
    /\ Len(adhesions) >= 6

====
